---- MODULE Spec2Model ----
(***************************************************************************)
(* Model of shipstation_integration/orders.py: the scheduler entry point   *)
(* queue_orders, the synchronization run list_orders, the validator        *)
(* validate_order and the order assembler create_erpnext_order.            *)
(*                                                                         *)
(* Python values that may be None are modelled as sequences of length at   *)
(* most one: None is <<>> and a present value v is <<v>>.  Money is an     *)
(* integer number of units, Scale units making one 0.01 step, so that the  *)
(* rounding to two decimals done by the code is a real operation.          *)
(***************************************************************************)
EXTENDS Integers, Sequences, FiniteSets, TLC

\* ------------------------------------------------------------------ bounds
\* number of list_orders runs a background worker executes
MaxRuns == 2
\* number of line items of a remote order in the assembler specification
MaxItems == 2
\* number of queue_orders invocations in all
MaxInvocations == 4
\* number of jobs the queue holds at most
MaxQueued == 3
\* money units per 0.01
Scale == 2
\* hours that pass at most while a run goes through its tenants and stores
MaxTicks == 2

\* --------------------------------------------------------- python values
None == <<>>

Some(v) == <<v>>

\* Python truthiness of an optional number: None and 0 are falsy.
Truthy(x) == x # None /\ x[1] # 0

Abs(n) == IF n < 0 THEN -n ELSE n

\* frappe.utils.flt of an optional number: None becomes 0.
flt(x) == IF x = None THEN 0 ELSE x[1]

\* hours per day: timestamps are hours, dates are days
HoursPerDay == 24

\* datetime.timedelta(hours=24): the length of the default fetch window
WindowHours == 24

\* frappe.utils.getdate: the date of a timestamp, its time of day dropped.
getdate(ts) == ts \div HoursPerDay

\* Decimal(x).quantize(Decimal(".01")): x rounded to a multiple of 0.01,
\* ties going to the even multiple (the decimal context's default rounding).
\* The result is again in units.
quantize(v) ==
    LET q == v \div Scale
        r == v % Scale
    IN  IF 2 * r < Scale THEN q * Scale
        ELSE IF 2 * r > Scale THEN (q + 1) * Scale
        ELSE IF q % 2 = 0 THEN q * Scale ELSE (q + 1) * Scale

RECURSIVE SumSeq(_)
SumSeq(s) == IF s = <<>> THEN 0 ELSE Head(s) + SumSeq(Tail(s))

Range(s) == {s[i] : i \in DOMAIN s}

\* all sequences over S of length at most n
SeqUpTo(S, n) == UNION {[1..k -> S] : k \in 0..n}

RECURSIVE SelectSeqIdx(_, _)
\* the indexes of sequence s whose element is in set S, ascending
SelectSeqIdx(s, S) ==
    IF s = <<>> THEN <<>>
    ELSE LET rest == SelectSeqIdx(SubSeq(s, 1, Len(s) - 1), S)
         IN  IF s[Len(s)] \in S THEN Append(rest, Len(s)) ELSE rest

\* ------------------------------------------------------- configuration
\* A Shipstation Store row of a settings document.  The account fields of a
\* store are the names below; sales_partner is None or the partner's name.
Store(id, parent, orders, wh, partner, comm) ==
    [store_id |-> id, parent |-> parent, enable_orders |-> orders,
     withholding |-> wh, sales_partner |-> partner, apply_commission |-> comm,
     tax_account |-> "tax", shipping_income_account |-> "shipping_income",
     difference_account |-> "difference", commission_account |-> "commission"]

\* The Shipstation Settings documents of the site, by name.  since_date is a
\* date (None when unset); active_warehouse_ids is empty when unrestricted.
SettingsDocs ==
    <<[name |-> 1, enabled |-> TRUE, active_warehouse_ids |-> {1},
       since_date |-> None,
       shipstation_stores |->
           <<Store(1, 1, TRUE, FALSE, None, FALSE),
             Store(2, 1, FALSE, FALSE, None, FALSE),
             Store(3, 1, TRUE, TRUE, Some("partner"), TRUE)>>],
      [name |-> 2, enabled |-> FALSE, active_warehouse_ids |-> {},
       since_date |-> None,
       shipstation_stores |-> <<Store(4, 2, TRUE, FALSE, None, FALSE)>>],
      [name |-> 3, enabled |-> TRUE, active_warehouse_ids |-> {},
       since_date |-> Some(1),
       shipstation_stores |->
           <<Store(5, 3, TRUE, FALSE, Some("partner"), FALSE)>>]>>

SettingsNames == 1..Len(SettingsDocs)

\* the stores of all settings documents
AllStores ==
    UNION {Range(SettingsDocs[t].shipstation_stores) : t \in SettingsNames}

\* frappe.get_all("Shipstation Settings", filters={"enabled": True}):
\* the names of the enabled documents, in order
get_all_enabled ==
    SelectSeqIdx([t \in SettingsNames |-> SettingsDocs[t].enabled], {TRUE})

\* the names frappe.get_hooks is asked for
HookNames ==
    {"update_shipstation_list_order_parameters", "process_shipstation_order",
     "process_shipstation_order_items",
     "update_shipstation_order_before_submit",
     "update_shipstation_order_after_submit"}

\* A commission formula is its token sequence: {{name}} placeholders,
\* numbers and operators.
Var(name) == [t |-> "var", v |-> name]

Num(n) == [t |-> "num", n |-> n]

Op(o) == [t |-> "op", v |-> o]

\* the commission formulas a Sales Partner may carry (None: not configured):
\* "{{grand_total}} * 2", "{{grand_total}} - {{discount_amount}}", "0", the
\* malformed "{{grand_total}} *" and "{{no_such_field}} * 2", whose
\* placeholder names no attribute
Formulas ==
    {None,
     Some(<<Var("grand_total"), Op("*"), Num(2)>>),
     Some(<<Var("grand_total"), Op("-"), Var("discount_amount")>>),
     Some(<<Num(0)>>),
     Some(<<Var("grand_total"), Op("*")>>),
     Some(<<Var("no_such_field"), Op("*"), Num(2)>>)}

\* ---------------------------------------------------------- remote data
\* A ShipStationOrderItem.  unit_price is None when the item has no such
\* attribute.
ItemSpace ==
    [quantity : {0, 1, 2}, unit_price : {None, Some(-5), Some(10)},
     line_item_key : {"discount", "sku"}]

Item(q, price, key) ==
    [quantity |-> q, unit_price |-> price, line_item_key |-> key]

\* A ShipStationOrder.  items is None when the order has no such attribute;
\* create_date is a timestamp in hours.
Order(id, wh, created, items, tax, shipping, paid) ==
    [order_id |-> id, warehouse_id |-> wh, create_date |-> created,
     items |-> items, tax_amount |-> tax, shipping_amount |-> shipping,
     amount_paid |-> paid]

\* ------------------------------------------------------------ documents
\* A new Sales Order document (frappe.new_doc and so.update, lines 128-150):
\* name 0 and docstatus 0 until saved.
new_doc(order, store) ==
    [name |-> 0, docstatus |-> 0, shipstation_order_id |-> order.order_id,
     sales_partner |-> store.sales_partner, items |-> <<>>, taxes |-> <<>>,
     apply_discount_on |-> None, discount_amount |-> 0, grand_total |-> 0]

\* a row of the taxes table of a Sales Order
Charge(account, description, amount, included) ==
    [account_head |-> account, description |-> description,
     tax_amount |-> amount, included_in_paid_amount |-> included]

\* The totals a save computes (the document layer's calculation): the
\* merchandise plus the charges, less a discount applied on the grand total.
calculate_totals(doc) ==
    SumSeq([i \in DOMAIN doc.items |-> doc.items[i].qty * doc.items[i].rate])
    + SumSeq([i \in DOMAIN doc.taxes |-> doc.taxes[i].tax_amount])
    - (IF doc.apply_discount_on = Some("Grand Total")
       THEN doc.discount_amount ELSE 0)

\* ---------------------------------------------------------------- state
\* the background workers that execute list_orders jobs
Workers == {1, 2}

\* the scheduler processes that invoke queue_orders
Schedulers == {1, 2, 3}

VARIABLES
    salesOrders,        \* the Sales Order table: document name -> document
    hooks,              \* the hook names that have a registered function
    commission_formula, \* the commission_formula of the Sales Partner
    pc,                 \* each worker's position in the code
    run,                \* each worker's list_orders locals
    requests,           \* each worker's client.list_orders calls of its run
    call,               \* each worker's create_erpnext_order arguments and locals
    ret,                \* the value the worker's last create_erpnext_order returned
    exc,                \* the exception that ended the worker's run, or None
    queued,             \* the number of list_orders jobs waiting in the queue
    sched,              \* each scheduler's position in queue_orders
    invocations         \* the number of queue_orders invocations so far

vars ==
    <<salesOrders, hooks, commission_formula, pc, run, requests, call, ret,
      exc, queued, sched, invocations>>

workerVars == <<pc, run, requests, call, ret, exc>>

configVars == <<hooks, commission_formula>>

queueVars == <<queued, sched, invocations>>

\* list_orders locals before a run.  clock is the time in hours that
\* datetime.datetime.utcnow() returns to the worker.
NoRun == [settings |-> <<>>, si |-> 0, sti |-> 0, orders |-> <<>>, oi |-> 0,
          n |-> 0, last_order_datetime |-> None, clock |-> 2 * WindowHours]

\* create_erpnext_order locals outside a call.  after_submit_calls counts the
\* calls of the post-submission hook.
NoCall == [order |-> None, store |-> None, so |-> None, discount_amount |-> 0,
           after_submit_calls |-> 0]

\* ------------------------------------------------------- validate_order
\* exists_submitted asking for docstatus 0
exists_submitted_draft(id) ==
    \E n \in DOMAIN salesOrders :
        /\ salesOrders[n].shipstation_order_id = id
        /\ salesOrders[n].docstatus = 0

\* frappe.db.get_value("Sales Order", {"shipstation_order_id": id,
\* "docstatus": 1}): whether a submitted document carries the id
exists_submitted(id) ==
    \E n \in DOMAIN salesOrders :
        /\ salesOrders[n].shipstation_order_id = id
        /\ salesOrders[n].docstatus = 1

\* validate_order_exit with the date test off by one (<=)
validate_order_exit_date_inclusive(settings, order, store) ==
    IF order = None THEN 1
    ELSE IF exists_submitted(order[1].order_id) THEN 2
    ELSE IF /\ settings.active_warehouse_ids # {}
            /\ order[1].warehouse_id \notin settings.active_warehouse_ids
         THEN 3
    ELSE IF /\ settings.since_date # None
            /\ getdate(order[1].create_date) <= settings.since_date[1]
         THEN 4
    ELSE 0

\* The return statement validate_order leaves by: 1..4 are the rejections in
\* source order, 0 is the final return True.  order is None or <<order>>.
validate_order_exit(settings, order, store) ==
    IF order = None THEN 1
    ELSE IF exists_submitted(order[1].order_id) THEN 2
    ELSE IF /\ settings.active_warehouse_ids # {}
            /\ order[1].warehouse_id \notin settings.active_warehouse_ids
         THEN 3
    ELSE IF /\ settings.since_date # None
            /\ getdate(order[1].create_date) < settings.since_date[1]
         THEN 4
    ELSE 0

validate_order(settings, order, store) ==
    validate_order_exit(settings, order, store) = 0

\* ------------------------------------------------- create_erpnext_order
\* rate of a line item: flt(item.unit_price) if the item has one, else 0.0
item_rate(item) == flt(item.unit_price)

RECURSIVE map_items_keeps_zero_quantity(_)
\* map_items with the quantity test off by one (quantity < 0)
map_items_keeps_zero_quantity(order_items) ==
    IF order_items = <<>> THEN [discount_amount |-> 0, items |-> <<>>]
    ELSE LET item == order_items[Len(order_items)]
             acc == map_items_keeps_zero_quantity(
                        SubSeq(order_items, 1, Len(order_items) - 1))
         IN  IF item.quantity < 0 THEN acc
             ELSE IF item.line_item_key = "discount"
                  THEN [acc EXCEPT !.discount_amount =
                            @ + Abs(item_rate(item) * item.quantity)]
             ELSE [acc EXCEPT !.items =
                       Append(@, [qty |-> item.quantity,
                                  rate |-> item_rate(item)])]

RECURSIVE map_items_signed_discount(_)
\* map_items adding the discount lines without abs()
map_items_signed_discount(order_items) ==
    IF order_items = <<>> THEN [discount_amount |-> 0, items |-> <<>>]
    ELSE LET item == order_items[Len(order_items)]
             acc == map_items_signed_discount(
                        SubSeq(order_items, 1, Len(order_items) - 1))
         IN  IF item.quantity < 1 THEN acc
             ELSE IF item.line_item_key = "discount"
                  THEN [acc EXCEPT !.discount_amount =
                            @ + item_rate(item) * item.quantity]
             ELSE [acc EXCEPT !.items =
                       Append(@, [qty |-> item.quantity,
                                  rate |-> item_rate(item)])]

RECURSIVE map_items(_)
\* The loop over order_items: the discount total and the merchandise rows
\* appended to the document, in item order.
map_items(order_items) ==
    IF order_items = <<>> THEN [discount_amount |-> 0, items |-> <<>>]
    ELSE LET item == order_items[Len(order_items)]
             acc == map_items(SubSeq(order_items, 1, Len(order_items) - 1))
         IN  IF item.quantity < 1 THEN acc
             ELSE IF item.line_item_key = "discount"
                  THEN [acc EXCEPT !.discount_amount =
                            @ + Abs(item_rate(item) * item.quantity)]
             ELSE [acc EXCEPT !.items =
                       Append(@, [qty |-> item.quantity,
                                  rate |-> item_rate(item)])]

\* initial_charges with the appends moved behind the first save
initial_charges_deferred(order, store) == <<>>

\* the tax charge and the shipping charge appended before the first save
initial_charges(order, store) ==
    (IF Truthy(order.tax_amount)
     THEN <<Charge(store.tax_account, "Shipstation Tax Amount",
                   order.tax_amount[1], 0)>>
     ELSE <<>>)
    \o (IF Truthy(order.shipping_amount)
        THEN <<Charge(store.shipping_income_account,
                      "Shipstation Shipping Amount",
                      order.shipping_amount[1], 0)>>
        ELSE <<>>)

\* difference_charges with the amount not negated
difference_charges_not_negated(so, order, store) ==
    IF /\ Truthy(order.amount_paid)
       /\ quantize(so.grand_total) # order.amount_paid[1]
    THEN LET difference_amount ==
                 quantize(so.grand_total) - order.amount_paid[1]
             account ==
                 IF /\ order.shipping_amount # None
                    /\ difference_amount = order.shipping_amount[1]
                 THEN store.shipping_income_account
                 ELSE store.difference_account
         IN  <<Charge(account, "Shipstation Difference Amount",
                      difference_amount, 0)>>
    ELSE <<>>

\* difference_charges comparing the unrounded grand total
difference_charges_unrounded(so, order, store) ==
    IF /\ Truthy(order.amount_paid)
       /\ so.grand_total # order.amount_paid[1]
    THEN LET difference_amount == so.grand_total - order.amount_paid[1]
             account ==
                 IF /\ order.shipping_amount # None
                    /\ difference_amount = order.shipping_amount[1]
                 THEN store.shipping_income_account
                 ELSE store.difference_account
         IN  <<Charge(account, "Shipstation Difference Amount",
                      (-1) * difference_amount, 0)>>
    ELSE <<>>

\* difference_charges without the shipping-income routing
difference_charges_unrouted(so, order, store) ==
    IF /\ Truthy(order.amount_paid)
       /\ quantize(so.grand_total) # order.amount_paid[1]
    THEN <<Charge(store.difference_account, "Shipstation Difference Amount",
                  (-1) * (quantize(so.grand_total) - order.amount_paid[1]),
                  0)>>
    ELSE <<>>

\* "coupons": the difference charge, or no charge
difference_charges(so, order, store) ==
    IF /\ Truthy(order.amount_paid)
       /\ quantize(so.grand_total) # order.amount_paid[1]
    THEN LET difference_amount ==
                 quantize(so.grand_total) - order.amount_paid[1]
             account ==
                 IF /\ order.shipping_amount # None
                    /\ difference_amount = order.shipping_amount[1]
                 THEN store.shipping_income_account
                 ELSE store.difference_account
         IN  <<Charge(account, "Shipstation Difference Amount",
                      (-1) * difference_amount, 0)>>
    ELSE <<>>

\* withholding_charges whatever the store's withholding setting
withholding_charges_always(order, store) ==
    IF Truthy(order.tax_amount)
    THEN <<Charge(store.tax_account, "Shipstation Tax Amount",
                  order.tax_amount[1] * (-1), 0)>>
    ELSE <<>>

\* "reverse withholding"
withholding_charges(order, store) ==
    IF Truthy(order.tax_amount) /\ store.withholding
    THEN <<Charge(store.tax_account, "Shipstation Tax Amount",
                  order.tax_amount[1] * (-1), 0)>>
    ELSE <<>>

\* the attributes of a document whose value is a number
NumericFields ==
    {"name", "docstatus", "shipstation_order_id", "discount_amount",
     "grand_total"}

\* re.sub of each placeholder that names an attribute of the document by
\* the attribute's string value; other placeholders stay in the formula
substitute(formula, doc) ==
    [i \in DOMAIN formula |->
        IF formula[i].t = "var" /\ formula[i].v \in DOMAIN doc
        THEN IF formula[i].v \in NumericFields
             THEN Num(doc[formula[i].v])
             ELSE [t |-> "text", v |-> formula[i].v]
        ELSE formula[i]]

\* frappe.safe_eval inside try/except: the value of the expression, None
\* when evaluating it raises
safe_eval(e) ==
    IF Len(e) = 1 /\ e[1].t = "num" THEN Some(e[1].n)
    ELSE IF /\ Len(e) = 3
            /\ e[1].t = "num" /\ e[2].t = "op" /\ e[3].t = "num"
         THEN IF e[2].v = "*" THEN Some(e[1].n * e[3].n)
              ELSE IF e[2].v = "+" THEN Some(e[1].n + e[3].n)
              ELSE IF e[2].v = "-" THEN Some(e[1].n - e[3].n)
              ELSE None
    ELSE None

get_formula_based_commission(doc) ==
    safe_eval(substitute(commission_formula[1], doc))

\* commission_charges whatever the store's apply_commission setting
commission_charges_any_store(so, store) ==
    IF /\ so.sales_partner # None
       /\ commission_formula # None
    THEN LET total_commission == get_formula_based_commission(so)
         IN  IF Truthy(total_commission)
             THEN <<Charge(store.commission_account, "Commission",
                           -(total_commission[1]), 1)>>
             ELSE <<>>
    ELSE <<>>

\* the commission charge, or no charge
commission_charges(so, store) ==
    IF /\ so.sales_partner # None
       /\ store.apply_commission
       /\ commission_formula # None
    THEN LET total_commission == get_formula_based_commission(so)
         IN  IF Truthy(total_commission)
             THEN <<Charge(store.commission_account, "Commission",
                           -(total_commission[1]), 1)>>
             ELSE <<>>
    ELSE <<>>

\* reconcile with the totals computed again before the commission
reconcile_recomputed(so, order, store, discount_amount) ==
    LET withDiff == [so EXCEPT !.taxes =
                        @ \o difference_charges(so, order, store)
                          \o withholding_charges(order, store)]
        withDisc == IF discount_amount > 0
                    THEN [withDiff EXCEPT
                            !.apply_discount_on = Some("Grand Total"),
                            !.discount_amount = discount_amount]
                    ELSE withDiff
        fresh == [withDisc EXCEPT !.grand_total = calculate_totals(withDisc)]
    IN  [withDisc EXCEPT !.taxes = @ \o commission_charges(fresh, store)]

\* Lines 230-284: the document after the reconciliation that follows the
\* first save, not yet saved again.
reconcile(so, order, store, discount_amount) ==
    LET withDiff == [so EXCEPT !.taxes =
                        @ \o difference_charges(so, order, store)
                          \o withholding_charges(order, store)]
        withDisc == IF discount_amount > 0
                    THEN [withDiff EXCEPT
                            !.apply_discount_on = Some("Grand Total"),
                            !.discount_amount = discount_amount]
                    ELSE withDiff
    IN  [withDisc EXCEPT !.taxes = @ \o commission_charges(withDisc, store)]

\* so.save(): the document as saved, named on its first save and with its
\* totals computed
saved(doc) ==
    [doc EXCEPT !.name = IF @ = 0 THEN Len(salesOrders) + 1 ELSE @,
                !.grand_total = calculate_totals(doc)]

\* the Sales Order table with a saved document written to it
written(doc) ==
    IF doc.name > Len(salesOrders) THEN Append(salesOrders, doc)
    ELSE [salesOrders EXCEPT ![doc.name] = doc]

\* What the process_shipstation_order_items hook may return for the items
\* it is given: any function can be registered; here it returns the list
\* unchanged or without its first item.
process_items_results(order_items) == {order_items, Tail(order_items)}

\* The list the item loop runs over: order.items if the order has them,
\* else [], rewritten by the hook when one is registered and the list is
\* not empty.
loop_items(order) ==
    LET order_items == IF order.items # None THEN order.items[1] ELSE <<>>
    IN  IF order_items = <<>> THEN {<<>>}
        ELSE IF "process_shipstation_order_items" \in hooks
             THEN process_items_results(order_items)
        ELSE {order_items}

\* the exception leaves create_erpnext_order and its caller
Raise(w, e) ==
    /\ pc' = [pc EXCEPT ![w] = "raised"]
    /\ exc' = [exc EXCEPT ![w] = Some(e)]

\* Lines 162-201: no items, or no merchandise row after the loop: return
\* with nothing saved.
Abandon(w) ==
    /\ pc[w] = "create"
    /\ \E order_items \in loop_items(call[w].order[1]) :
           map_items(order_items).items = <<>>
    /\ pc' = [pc EXCEPT ![w] = "returned"]
    /\ ret' = [ret EXCEPT ![w] = None]
    /\ UNCHANGED <<salesOrders, configVars, run, requests, call, exc, queueVars>>

\* Lines 123-229: the draft with its merchandise rows, its tax and shipping
\* charges, and the first so.save().
FirstSave(w) ==
    /\ pc[w] = "create"
    /\ \E order_items \in loop_items(call[w].order[1]) :
           LET order == call[w].order[1]
               store == call[w].store[1]
               mapped == map_items(order_items)
               so == saved([new_doc(order, store) EXCEPT
                               !.items = mapped.items,
                               !.taxes = initial_charges(order, store)])
           IN  /\ mapped.items # <<>>
               /\ salesOrders' = written(so)
               /\ call' = [call EXCEPT
                             ![w].so = Some(so),
                             ![w].discount_amount = mapped.discount_amount]
    /\ pc' = [pc EXCEPT ![w] = "saved"]
    /\ UNCHANGED <<configVars, run, requests, ret, exc, queueVars>>

\* the first so.save() raises
FirstSaveFails(w) ==
    /\ pc[w] = "create"
    /\ \E order_items \in loop_items(call[w].order[1]) :
           map_items(order_items).items # <<>>
    /\ Raise(w, "PersistenceError")
    /\ UNCHANGED <<salesOrders, configVars, run, requests, call, ret, queueVars>>

\* SecondSave with get_formula_based_commission letting the evaluation
\* error through
SecondSaveFormulaRaises(w) ==
    /\ pc[w] = "saved"
    /\ LET c == call[w]
           so == saved(reconcile(c.so[1], c.order[1], c.store[1],
                                 c.discount_amount))
       IN  IF /\ c.so[1].sales_partner # None
              /\ c.store[1].apply_commission
              /\ commission_formula # None
              /\ get_formula_based_commission(c.so[1]) = None
           THEN /\ Raise(w, "FormulaEvaluationError")
                /\ UNCHANGED <<salesOrders, call>>
           ELSE /\ salesOrders' = written(so)
                /\ call' = [call EXCEPT ![w].so = Some(so)]
                /\ pc' = [pc EXCEPT ![w] = "saved2"]
                /\ UNCHANGED exc
    /\ UNCHANGED <<configVars, run, requests, ret, queueVars>>

\* Lines 230-286: the reconciliation and the second so.save().
SecondSave(w) ==
    /\ pc[w] = "saved"
    /\ LET c == call[w]
           so == saved(reconcile(c.so[1], c.order[1], c.store[1],
                                 c.discount_amount))
       IN  /\ salesOrders' = written(so)
           /\ call' = [call EXCEPT ![w].so = Some(so)]
    /\ pc' = [pc EXCEPT ![w] = "saved2"]
    /\ UNCHANGED <<configVars, run, requests, ret, exc, queueVars>>

\* SecondSaveFails with the exception caught around the order: the loop
\* goes on
SecondSaveFailsCaught(w) ==
    /\ pc[w] = "saved"
    /\ pc' = [pc EXCEPT ![w] = "returned"]
    /\ exc' = [exc EXCEPT ![w] = Some("PersistenceError")]
    /\ UNCHANGED <<salesOrders, configVars, run, requests, call, ret, queueVars>>

\* the second so.save() raises
SecondSaveFails(w) ==
    /\ pc[w] = "saved"
    /\ Raise(w, "PersistenceError")
    /\ UNCHANGED <<salesOrders, configVars, run, requests, call, ret, queueVars>>

\* Lines 288-289: no pre-submission hook is registered.
NoBeforeSubmitHook(w) ==
    /\ pc[w] = "saved2"
    /\ "update_shipstation_order_before_submit" \notin hooks
    /\ pc' = [pc EXCEPT ![w] = "presubmit"]
    /\ UNCHANGED <<salesOrders, configVars, run, requests, call, ret, exc,
                   queueVars>>

\* Lines 288-292: the pre-submission hook returns the document, which is
\* saved again.
BeforeSubmitHook(w) ==
    /\ pc[w] = "saved2"
    /\ "update_shipstation_order_before_submit" \in hooks
    /\ LET so == saved(call[w].so[1])
       IN  /\ salesOrders' = written(so)
           /\ call' = [call EXCEPT ![w].so = Some(so)]
    /\ pc' = [pc EXCEPT ![w] = "presubmit"]
    /\ UNCHANGED <<configVars, run, requests, ret, exc, queueVars>>

\* Lines 288-291: the pre-submission hook returns nothing: so is None.
BeforeSubmitHookReturnsNone(w) ==
    /\ pc[w] = "saved2"
    /\ "update_shipstation_order_before_submit" \in hooks
    /\ call' = [call EXCEPT ![w].so = None]
    /\ pc' = [pc EXCEPT ![w] = "presubmit"]
    /\ UNCHANGED <<salesOrders, configVars, run, requests, ret, exc, queueVars>>

\* the so.save() after the pre-submission hook raises
BeforeSubmitSaveFails(w) ==
    /\ pc[w] = "saved2"
    /\ "update_shipstation_order_before_submit" \in hooks
    /\ Raise(w, "PersistenceError")
    /\ UNCHANGED <<salesOrders, configVars, run, requests, call, ret, queueVars>>

\* Lines 293-295: so.submit() and the commit.
Submit(w) ==
    /\ pc[w] = "presubmit"
    /\ call[w].so # None
    /\ LET so == [call[w].so[1] EXCEPT !.docstatus = 1]
       IN  /\ salesOrders' = written(so)
           /\ call' = [call EXCEPT ![w].so = Some(so)]
    /\ pc' = [pc EXCEPT ![w] = "postsubmit"]
    /\ UNCHANGED <<configVars, run, requests, ret, exc, queueVars>>

\* so.submit() raises
SubmitFails(w) ==
    /\ pc[w] = "presubmit"
    /\ call[w].so # None
    /\ Raise(w, "PersistenceError")
    /\ UNCHANGED <<salesOrders, configVars, run, requests, call, ret, queueVars>>

\* Line 293: so is None, nothing is submitted.
NoSubmit(w) ==
    /\ pc[w] = "presubmit"
    /\ call[w].so = None
    /\ pc' = [pc EXCEPT ![w] = "postsubmit"]
    /\ UNCHANGED <<salesOrders, configVars, run, requests, call, ret, exc,
                   queueVars>>

\* Lines 297-302: the test of line 298 is on before_submit_hook.  Without a
\* pre-submission hook the post-submission hook is not looked at.
ReturnWithoutAfterHook(w) ==
    /\ pc[w] = "postsubmit"
    /\ "update_shipstation_order_before_submit" \notin hooks
    /\ pc' = [pc EXCEPT ![w] = "returned"]
    /\ ret' = [ret EXCEPT ![w] =
                 IF call[w].so # None THEN Some(call[w].so[1].name) ELSE None]
    /\ UNCHANGED <<salesOrders, configVars, run, requests, call, exc, queueVars>>

\* Lines 297-302: with a pre-submission hook and a post-submission hook the
\* post-submission hook is called, then the name is returned.
ReturnAfterHook(w) ==
    /\ pc[w] = "postsubmit"
    /\ "update_shipstation_order_before_submit" \in hooks
    /\ "update_shipstation_order_after_submit" \in hooks
    /\ call' = [call EXCEPT ![w].after_submit_calls = @ + 1]
    /\ pc' = [pc EXCEPT ![w] = "returned"]
    /\ ret' = [ret EXCEPT ![w] =
                 IF call[w].so # None THEN Some(call[w].so[1].name) ELSE None]
    /\ UNCHANGED <<salesOrders, configVars, run, requests, exc, queueVars>>

\* Line 299: with a pre-submission hook and no post-submission hook,
\* after_submit_hook[0] indexes an empty list.
AfterHookIndexError(w) ==
    /\ pc[w] = "postsubmit"
    /\ "update_shipstation_order_before_submit" \in hooks
    /\ "update_shipstation_order_after_submit" \notin hooks
    /\ Raise(w, "IndexError")
    /\ UNCHANGED <<salesOrders, configVars, run, requests, call, ret, queueVars>>

\* one step of create_erpnext_order
CreateStep(w) ==
    \/ Abandon(w)
    \/ FirstSave(w)
    \/ FirstSaveFails(w)
    \/ SecondSave(w)
    \/ SecondSaveFails(w)
    \/ NoBeforeSubmitHook(w)
    \/ BeforeSubmitHook(w)
    \/ BeforeSubmitHookReturnsNone(w)
    \/ BeforeSubmitSaveFails(w)
    \/ Submit(w)
    \/ SubmitFails(w)
    \/ NoSubmit(w)
    \/ ReturnWithoutAfterHook(w)
    \/ ReturnAfterHook(w)
    \/ AfterHookIndexError(w)

\* ----------------------------------------------------------- list_orders
\* the orders a client.list_orders call may return, in a full run: present
\* orders and None entries
A_Order == Order(1, 1, 24, Some(<<Item(1, Some(10), "sku")>>),
                 None, None, None)

B_Order == Order(2, 2, 23, Some(<<Item(1, Some(10), "sku")>>),
                 None, None, None)

C_Order == Order(2, 1, 24, Some(<<Item(1, Some(-5), "discount")>>),
                 None, None, None)

\* What one client.list_orders call returns in a full run: nothing; one
\* order; the same order twice; an order of another warehouse and date and
\* then an order; a None entry and an order with a discount line only.
RemoteOrders ==
    {<<>>, <<Some(A_Order)>>, <<Some(A_Order), Some(A_Order)>>,
     <<Some(B_Order), Some(A_Order)>>, <<None, Some(C_Order)>>}

\* the settings document and the store the worker's loops are at
CurrentSettings(w) == SettingsDocs[run[w].settings[run[w].si]]

CurrentStore(w) == CurrentSettings(w).shipstation_stores[run[w].sti]

\* Lines 38-45: list_orders starts; settings is the enabled documents when
\* none is passed, else the documents passed.
StartRun(w, args) ==
    /\ pc[w] \in {"idle", "done", "raised"}
    /\ run[w].n < MaxRuns
    /\ \E settings \in args :
           run' = [run EXCEPT ![w] =
                      [NoRun EXCEPT !.settings = settings, !.si = 1,
                                    !.n = run[w].n + 1,
                                    !.clock = run[w].clock]]
    /\ pc' = [pc EXCEPT ![w] = "settings"]
    /\ requests' = [requests EXCEPT ![w] = <<>>]
    /\ call' = [call EXCEPT ![w] = NoCall]
    /\ ret' = [ret EXCEPT ![w] = None]
    /\ exc' = [exc EXCEPT ![w] = None]
    /\ UNCHANGED <<salesOrders, configVars, queueVars>>

\* Lines 47-50: the next settings document is not enabled.
SkipSettings(w) ==
    /\ pc[w] = "settings"
    /\ run[w].si <= Len(run[w].settings)
    /\ ~CurrentSettings(w).enabled
    /\ run' = [run EXCEPT ![w].si = @ + 1]
    /\ UNCHANGED <<salesOrders, configVars, pc, requests, call, ret, exc,
                   queueVars>>

\* Lines 47-57: the next settings document is enabled: last_order_datetime
\* is set to 24 hours before now if it has no value yet, and the stores of
\* the document follow.
EnterSettings(w) ==
    /\ pc[w] = "settings"
    /\ run[w].si <= Len(run[w].settings)
    /\ CurrentSettings(w).enabled
    /\ run' = [run EXCEPT
                  ![w].sti = 1,
                  ![w].last_order_datetime =
                      IF @ = None THEN Some(run[w].clock - WindowHours)
                      ELSE @]
    /\ pc' = [pc EXCEPT ![w] = "stores"]
    /\ UNCHANGED <<salesOrders, configVars, requests, call, ret, exc, queueVars>>

\* Line 47: no settings document is left: list_orders returns.
EndRun(w) ==
    /\ pc[w] = "settings"
    /\ run[w].si > Len(run[w].settings)
    /\ pc' = [pc EXCEPT ![w] = "done"]
    /\ UNCHANGED <<salesOrders, configVars, run, requests, call, ret, exc,
                   queueVars>>

\* Lines 60-62: the next store has orders disabled.
SkipStore(w) ==
    /\ pc[w] = "stores"
    /\ run[w].sti <= Len(CurrentSettings(w).shipstation_stores)
    /\ ~CurrentStore(w).enable_orders
    /\ run' = [run EXCEPT ![w].sti = @ + 1]
    /\ UNCHANGED <<salesOrders, configVars, pc, requests, call, ret, exc,
                   queueVars>>

\* parameters with the window start computed anew for the store
parameters_per_store(w) ==
    [store_id |-> CurrentStore(w).store_id,
     modify_date_start |-> run[w].clock - WindowHours,
     modify_date_end |-> run[w].clock,
     ok |-> TRUE]

\* Lines 64-68: the parameters of the client.list_orders call for the store
\* the loop is at; ok tells whether the call returned.
parameters(w) ==
    [store_id |-> CurrentStore(w).store_id,
     modify_date_start |-> run[w].last_order_datetime[1],
     modify_date_end |-> run[w].clock,
     ok |-> TRUE]

\* Time passes while the run goes from one tenant or store to the next.
Tick(w) ==
    /\ pc[w] \in {"settings", "stores"}
    /\ run[w].clock < 2 * WindowHours + MaxTicks
    /\ run' = [run EXCEPT ![w].clock = @ + 1]
    /\ UNCHANGED <<salesOrders, configVars, pc, requests, call, ret, exc,
                   queueVars>>

\* Lines 64-75: client.list_orders returns the store's orders.
FetchOrders(w, pool) ==
    /\ pc[w] = "stores"
    /\ run[w].sti <= Len(CurrentSettings(w).shipstation_stores)
    /\ CurrentStore(w).enable_orders
    /\ \E orders \in pool :
           /\ run' = [run EXCEPT ![w].orders = orders, ![w].oi = 1]
           /\ requests' = [requests EXCEPT ![w] =
                  Append(@, [parameters(w) EXCEPT !.ok = TRUE])]
    /\ pc' = [pc EXCEPT ![w] = "orders"]
    /\ UNCHANGED <<salesOrders, configVars, call, ret, exc, queueVars>>

\* FetchFails leaving the store loop (break) instead of continuing
FetchFailsBreaks(w) ==
    /\ pc[w] = "stores"
    /\ run[w].sti <= Len(CurrentSettings(w).shipstation_stores)
    /\ CurrentStore(w).enable_orders
    /\ requests' = [requests EXCEPT ![w] =
           Append(@, [parameters(w) EXCEPT !.ok = FALSE])]
    /\ run' = [run EXCEPT ![w].sti =
                  Len(CurrentSettings(w).shipstation_stores) + 1]
    /\ UNCHANGED <<salesOrders, configVars, pc, call, ret, exc, queueVars>>

\* Lines 74-78: client.list_orders raises HTTPError: the error is logged
\* and the loop continues with the next store.
FetchFails(w) ==
    /\ pc[w] = "stores"
    /\ run[w].sti <= Len(CurrentSettings(w).shipstation_stores)
    /\ CurrentStore(w).enable_orders
    /\ requests' = [requests EXCEPT ![w] =
           Append(@, [parameters(w) EXCEPT !.ok = FALSE])]
    /\ run' = [run EXCEPT ![w].sti = @ + 1]
    /\ UNCHANGED <<salesOrders, configVars, pc, call, ret, exc, queueVars>>

\* Line 60: no store is left: the next settings document follows.
EndStores(w) ==
    /\ pc[w] = "stores"
    /\ run[w].sti > Len(CurrentSettings(w).shipstation_stores)
    /\ run' = [run EXCEPT ![w].si = @ + 1]
    /\ pc' = [pc EXCEPT ![w] = "settings"]
    /\ UNCHANGED <<salesOrders, configVars, requests, call, ret, exc, queueVars>>

\* the entry of the fetched list the order loop is at
CurrentOrder(w) == run[w].orders[run[w].oi]

\* Lines 81-82: validate_order returns False.
RejectOrder(w) ==
    /\ pc[w] = "orders"
    /\ run[w].oi <= Len(run[w].orders)
    /\ ~validate_order(CurrentSettings(w), CurrentOrder(w), CurrentStore(w))
    /\ run' = [run EXCEPT ![w].oi = @ + 1]
    /\ UNCHANGED <<salesOrders, configVars, pc, requests, call, ret, exc,
                   queueVars>>

\* Lines 82-89: validate_order returns True and the registered
\* process_shipstation_order hook returns a falsy value.
VetoOrder(w) ==
    /\ pc[w] = "orders"
    /\ run[w].oi <= Len(run[w].orders)
    /\ validate_order(CurrentSettings(w), CurrentOrder(w), CurrentStore(w))
    /\ "process_shipstation_order" \in hooks
    /\ run' = [run EXCEPT ![w].oi = @ + 1]
    /\ UNCHANGED <<salesOrders, configVars, pc, requests, call, ret, exc,
                   queueVars>>

\* AcceptOrder without the validate_order test
AcceptOrderUnvalidated(w) ==
    /\ pc[w] = "orders"
    /\ run[w].oi <= Len(run[w].orders)
    /\ CurrentOrder(w) # None
    /\ call' = [call EXCEPT ![w] =
                   [NoCall EXCEPT !.order = CurrentOrder(w),
                                  !.store = Some(CurrentStore(w))]]
    /\ pc' = [pc EXCEPT ![w] = "create"]
    /\ UNCHANGED <<salesOrders, configVars, run, requests, ret, exc, queueVars>>

\* Lines 82-90: validate_order returns True and no hook is registered or
\* the hook returns a truthy value: create_erpnext_order is called.
AcceptOrder(w) ==
    /\ pc[w] = "orders"
    /\ run[w].oi <= Len(run[w].orders)
    /\ validate_order(CurrentSettings(w), CurrentOrder(w), CurrentStore(w))
    /\ call' = [call EXCEPT ![w] =
                   [NoCall EXCEPT !.order = CurrentOrder(w),
                                  !.store = Some(CurrentStore(w))]]
    /\ pc' = [pc EXCEPT ![w] = "create"]
    /\ UNCHANGED <<salesOrders, configVars, run, requests, ret, exc, queueVars>>

\* Line 90 returns: the loop goes to the next order.
OrderDone(w) ==
    /\ pc[w] = "returned"
    /\ run[w].oi <= Len(run[w].orders)
    /\ run' = [run EXCEPT ![w].oi = @ + 1]
    /\ pc' = [pc EXCEPT ![w] = "orders"]
    /\ UNCHANGED <<salesOrders, configVars, requests, call, ret, exc, queueVars>>

\* Line 81: no order is left: the next store follows.
EndOrders(w) ==
    /\ pc[w] = "orders"
    /\ run[w].oi > Len(run[w].orders)
    /\ run' = [run EXCEPT ![w].sti = @ + 1]
    /\ pc' = [pc EXCEPT ![w] = "stores"]
    /\ UNCHANGED <<salesOrders, configVars, requests, call, ret, exc, queueVars>>

\* one step of list_orders outside create_erpnext_order, after its start
LoopStep(w, pool) ==
    \/ SkipSettings(w)
    \/ EnterSettings(w)
    \/ EndRun(w)
    \/ SkipStore(w)
    \/ FetchOrders(w, pool)
    \/ FetchFails(w)
    \/ EndStores(w)
    \/ RejectOrder(w)
    \/ VetoOrder(w)
    \/ AcceptOrder(w)
    \/ OrderDone(w)
    \/ EndOrders(w)

\* the registered hooks of the run specifications
RunHooks ==
    {{}, {"process_shipstation_order"},
     {"update_shipstation_order_before_submit"},
     {"update_shipstation_order_before_submit",
      "update_shipstation_order_after_submit"}}

\* before any run: an empty Sales Order table, idle workers, an empty queue
RunInit ==
    /\ salesOrders = <<>>
    /\ hooks \in RunHooks
    /\ commission_formula = None
    /\ pc = [w \in Workers |-> "idle"]
    /\ run = [w \in Workers |-> NoRun]
    /\ requests = [w \in Workers |-> <<>>]
    /\ call = [w \in Workers |-> NoCall]
    /\ ret = [w \in Workers |-> None]
    /\ exc = [w \in Workers |-> None]
    /\ queued = 0
    /\ sched = [p \in Schedulers |-> "idle"]
    /\ invocations = 0

\* list_orders() and list_orders(settings) with every document passed
FullRuns == {get_all_enabled, [t \in SettingsNames |-> t]}

\* Runs executed one after another by worker 1.
SeqNext ==
    \/ StartRun(1, FullRuns)
    \/ LoopStep(1, RemoteOrders)
    \/ CreateStep(1)

SpecSeq == RunInit /\ [][SeqNext]_vars

\* One run of worker 1.
RunNext ==
    \/ pc[1] = "idle" /\ StartRun(1, FullRuns)
    \/ LoopStep(1, RemoteOrders)
    \/ CreateStep(1)

SpecRun == RunInit /\ [][RunNext]_vars

\* One run of worker 1 while time passes.
WindowNext ==
    \/ pc[1] = "idle" /\ StartRun(1, FullRuns)
    \/ Tick(1)
    \/ LoopStep(1, RemoteOrders)
    \/ CreateStep(1)

SpecWindow == RunInit /\ [][WindowNext]_vars

\* list_orders(settings) with the one settings document 3 passed
SingleRuns == {<<3>>}

\* what one client.list_orders call returns in overlapping runs
OverlapOrders ==
    {<<Some(A_Order)>>, <<Some(A_Order), Some(A_Order)>>,
     <<None, Some(C_Order)>>}

\* Runs of the two workers overlapping in time, each over settings 3.  The
\* steps of a run are its reads and writes of the Sales Order table.
Next ==
    \E w \in Workers :
        \/ StartRun(w, SingleRuns)
        \/ EnterSettings(w)
        \/ EndRun(w)
        \/ FetchOrders(w, OverlapOrders)
        \/ FetchFails(w)
        \/ EndStores(w)
        \/ RejectOrder(w)
        \/ VetoOrder(w)
        \/ AcceptOrder(w)
        \/ OrderDone(w)
        \/ EndOrders(w)
        \/ CreateStep(w)

Spec == RunInit /\ [][Next]_vars

\* ---------------------------------------------------------- queue_orders
\* is_job_queued("shipstation_integration.orders.list_orders"): whether a
\* job of that name is waiting in the queue
is_job_queued == queued > 0

\* Line 31: queue_orders is invoked and finds the job queued: it returns.
QueueOrdersFindsJob(p) ==
    /\ sched[p] = "idle"
    /\ invocations < MaxInvocations
    /\ is_job_queued
    /\ invocations' = invocations + 1
    /\ UNCHANGED <<salesOrders, configVars, workerVars, queued, sched>>

\* Line 31: queue_orders is invoked and finds no job queued.
QueueOrdersFindsNone(p) ==
    /\ sched[p] = "idle"
    /\ invocations < MaxInvocations
    /\ ~is_job_queued
    /\ invocations' = invocations + 1
    /\ sched' = [sched EXCEPT ![p] = "enqueue"]
    /\ UNCHANGED <<salesOrders, configVars, workerVars, queued>>

\* Lines 32-35: frappe.enqueue puts a list_orders job on the queue.
Enqueue(p) ==
    /\ sched[p] = "enqueue"
    /\ queued < MaxQueued
    /\ queued' = queued + 1
    /\ sched' = [sched EXCEPT ![p] = "idle"]
    /\ UNCHANGED <<salesOrders, configVars, workerVars, invocations>>

\* A worker takes a job off the queue and starts it; a started job is no
\* longer waiting.
TakeJob(w) ==
    /\ pc[w] = "idle"
    /\ queued > 0
    /\ queued' = queued - 1
    /\ pc' = [pc EXCEPT ![w] = "job"]
    /\ UNCHANGED <<salesOrders, configVars, run, requests, call, ret, exc,
                   sched, invocations>>

\* The job ends.
FinishJob(w) ==
    /\ pc[w] = "job"
    /\ pc' = [pc EXCEPT ![w] = "idle"]
    /\ UNCHANGED <<salesOrders, configVars, run, requests, call, ret, exc,
                   queueVars>>

\* Scheduler processes invoking queue_orders while workers take the jobs.
QueueNext ==
    \/ \E p \in Schedulers :
           \/ QueueOrdersFindsJob(p)
           \/ QueueOrdersFindsNone(p)
           \/ Enqueue(p)
    \/ \E w \in Workers :
           \/ TakeJob(w)
           \/ FinishJob(w)

QueueInit == RunInit /\ hooks = {}

SpecQueue == QueueInit /\ [][QueueNext]_vars

\* ------------------------------------------- the assembler on its inputs
\* the store with the given id
StoreById(id) == CHOOSE s \in AllStores : s.store_id = id

\* The calls that vary the line items: every item list up to MaxItems (and
\* an order without items attribute), for a plain store, with and without
\* the items hook.
ItemCases ==
    [order : {Order(1, 1, 24, items, tax, shipping, paid) :
                 items \in {None}
                     \cup {Some(i) : i \in SeqUpTo(ItemSpace, MaxItems)},
                 tax \in {None, Some(3)},
                 shipping \in {None, Some(5)},
                 paid \in {None, Some(13)}},
     store : {StoreById(1)},
     hooks : {{}, {"process_shipstation_order_items"}},
     formula : {None}]

\* The calls that vary the amounts, the store, the hooks and the commission
\* formula, for three item lists: one merchandise line; a discount line and
\* a merchandise line; two merchandise lines.
MoneyCases ==
    [order : {Order(1, 1, 24, Some(items), tax, shipping, paid) :
                 items \in {<<Item(1, Some(10), "sku")>>,
                            <<Item(2, Some(-5), "discount"),
                              Item(1, Some(10), "sku")>>,
                            <<Item(1, Some(10), "sku"),
                              Item(2, Some(10), "sku")>>},
                 tax \in {None, Some(0), Some(3)},
                 shipping \in {None, Some(0), Some(5)},
                 paid \in {None, Some(0), Some(10), Some(12), Some(13),
                           Some(18), Some(38)}},
     store : {StoreById(1), StoreById(3), StoreById(5)},
     hooks : {{}, {"update_shipstation_order_before_submit"},
              {"update_shipstation_order_after_submit"},
              {"update_shipstation_order_before_submit",
               "update_shipstation_order_after_submit"}},
     formula : Formulas]

AssembleCases == ItemCases \cup MoneyCases

\* create_erpnext_order(order, store, sss) called by worker 1 on an empty
\* Sales Order table
AssembleInit ==
    /\ salesOrders = <<>>
    /\ pc = [w \in Workers |-> IF w = 1 THEN "create" ELSE "idle"]
    /\ run = [w \in Workers |-> NoRun]
    /\ requests = [w \in Workers |-> <<>>]
    /\ \E c \in AssembleCases :
           /\ hooks = c.hooks
           /\ commission_formula = c.formula
           /\ call = [w \in Workers |->
                         IF w = 1
                         THEN [NoCall EXCEPT !.order = Some(c.order),
                                             !.store = Some(c.store)]
                         ELSE NoCall]
    /\ ret = [w \in Workers |-> None]
    /\ exc = [w \in Workers |-> None]
    /\ queued = 0
    /\ sched = [p \in Schedulers |-> "idle"]
    /\ invocations = 0

AssembleNext == CreateStep(1)

SpecAssemble == AssembleInit /\ [][AssembleNext]_vars

\* =============================================================== claims
\* ----- reference definitions the claims are stated with

\* the items that count as merchandise: quantity >= 1 and not a discount
IsMerchandise(item) == item.quantity >= 1 /\ item.line_item_key # "discount"

\* the items that count as discount lines: quantity >= 1 and key "discount"
IsDiscount(item) == item.quantity >= 1 /\ item.line_item_key = "discount"

\* sum of |unit_price x quantity| over the discount lines of a list
DiscountTotal(items) ==
    SumSeq([i \in DOMAIN items |->
               IF IsDiscount(items[i])
               THEN Abs(flt(items[i].unit_price) * items[i].quantity)
               ELSE 0])

\* the merchandise rows of a list: one row per merchandise item, in order
MerchandiseRows(items) ==
    LET idx == SelectSeqIdx([i \in DOMAIN items |-> IsMerchandise(items[i])],
                            {TRUE})
    IN  [k \in DOMAIN idx |->
            [qty |-> items[idx[k]].quantity,
             rate |-> flt(items[idx[k]].unit_price)]]

\* the worker is inside or just after a create_erpnext_order call
InCall(w) == call[w].order # None

\* the worker's document has been through the reconciliation and second save
Reconciled(w) ==
    /\ pc[w] \in {"saved2", "presubmit", "postsubmit", "returned"}
    /\ call[w].so # None

\* merchandise plus tax and shipping charges: the grand total of the first
\* save, in units
FirstGrandTotal(w) ==
    LET so == call[w].so[1]
        order == call[w].order[1]
    IN  SumSeq([i \in DOMAIN so.items |-> so.items[i].qty * so.items[i].rate])
        + flt(order.tax_amount) + flt(order.shipping_amount)

\* the difference charges on the worker's document
DifferenceCharges(w) ==
    SelectSeq(call[w].so[1].taxes,
              LAMBDA c : c.description = "Shipstation Difference Amount")

\* the external order ids that a submitted document carries
SubmittedIds ==
    {salesOrders[n].shipstation_order_id :
        n \in {m \in DOMAIN salesOrders : salesOrders[m].docstatus = 1}}

\* the submitted documents that carry an external order id
SubmittedFor(id) ==
    {n \in DOMAIN salesOrders :
        /\ salesOrders[n].docstatus = 1
        /\ salesOrders[n].shipstation_order_id = id}

\* the external order ids of the remote orders
OrderIds == {1, 2}

RECURSIVE EnabledStoreIds(_)
\* the store ids a run over the settings list has to request, in order: the
\* stores with orders enabled of the enabled documents
EnabledStoreIds(settings) ==
    IF settings = <<>> THEN <<>>
    ELSE LET doc == SettingsDocs[Head(settings)]
             own == IF doc.enabled
                    THEN SelectSeq(doc.shipstation_stores,
                                   LAMBDA st : st.enable_orders)
                    ELSE <<>>
         IN  [i \in DOMAIN own |-> own[i].store_id]
             \o EnabledStoreIds(Tail(settings))

\* the store ids the worker's run has requested so far, in order
RequestedStoreIds(w) ==
    [i \in DOMAIN requests[w] |-> requests[w][i].store_id]

IsPrefix(a, b) == Len(a) <= Len(b) /\ a = SubSeq(b, 1, Len(a))

\* ----- C1
\* C1: with runs executed one after another, also when a fetch returns the
\* same remote order more than once, no two Submitted documents carry the
\* same external order id.
C1_NoTwoSubmittedSameId ==
    \A n1, n2 \in DOMAIN salesOrders :
        (/\ n1 # n2
         /\ salesOrders[n1].docstatus = 1
         /\ salesOrders[n2].docstatus = 1)
        => salesOrders[n1].shipstation_order_id
               # salesOrders[n2].shipstation_order_id

\* the second run has ended after a fetch that returned the already
\* submitted order twice
C1_Witness ==
    /\ run[1].n = 2
    /\ pc[1] = "done"
    /\ run[1].orders = <<Some(A_Order), Some(A_Order)>>
    /\ SubmittedFor(1) # {}

\* ----- C2
\* C2 as claimed: under every interleaving of overlapping runs, at most one
\* Submitted document exists for an external order id.
C2_AtMostOneOrderPerId ==
    \A id \in OrderIds : Cardinality(SubmittedFor(id)) <= 1

\* C2 amended: a run calls create_erpnext_order for an order only if no
\* Submitted document carries its id at the time of the validate_order
\* pre-check, and the Submitted documents of one id never outnumber the
\* runs started; overlapping runs whose pre-checks both precede both
\* submits each submit one.
C2_PrecheckPreventsLaterDuplicate ==
    /\ [](\A id \in OrderIds :
              Cardinality(SubmittedFor(id))
                  <= SumSeq([w \in 1..Cardinality(Workers) |-> run[w].n]))
    /\ [][\A w \in Workers :
              (pc[w] = "orders" /\ pc'[w] = "create")
              => CurrentOrder(w)[1].order_id \notin SubmittedIds]_vars

\* worker 2 is at the pre-check of an order that worker 1, whose run is
\* still going on, has submitted
C2_Witness ==
    /\ pc[1] = "postsubmit"
    /\ call[1].so # None
    /\ pc[2] = "orders"
    /\ run[2].oi <= Len(run[2].orders)
    /\ CurrentOrder(2) = call[1].order
    /\ call[1].order[1].order_id \in SubmittedIds

\* ----- C3
\* C3: at most one list_orders job is waiting in the queue at any time.
C3_AtMostOnePending == queued <= 1

\* ----- C4
\* C4: a run requests the stores with orders enabled of the enabled settings
\* documents in order, none left out, whichever requests raised HTTPError:
\* after a failed request the run goes on without an exception, and a run
\* that has ended has requested every one of them and has gone through
\* every order fetched.
C4_TransportFailureSkipsStoreOnly ==
    \A w \in Workers :
        /\ IsPrefix(RequestedStoreIds(w), EnabledStoreIds(run[w].settings))
        /\ pc[w] = "done"
           => /\ RequestedStoreIds(w) = EnabledStoreIds(run[w].settings)
              /\ run[w].orders = <<>> \/ run[w].oi > Len(run[w].orders)
        /\ (requests[w] # <<>> /\ ~requests[w][Len(requests[w])].ok)
           => /\ pc[w] \in {"stores", "settings", "done"}
              /\ exc[w] = None

\* a run has ended in which the first store's request failed and the later
\* store of the same settings document and the store of the later document
\* were requested, and an order of them was submitted
C4_Witness ==
    /\ pc[1] = "done"
    /\ RequestedStoreIds(1) = <<1, 3, 5>>
    /\ [i \in DOMAIN requests[1] |-> requests[1][i].ok] = <<FALSE, TRUE, TRUE>>
    /\ SubmittedFor(1) # {}

\* ----- C5
\* C5 as claimed: after a persistence failure the run still requests every
\* store and goes through every order fetched.
C5_PersistenceFailureAbortsOrderOnly ==
    \A w \in Workers :
        (exc[w] = Some("PersistenceError") /\ pc[w] \in {"raised", "done"})
        => /\ RequestedStoreIds(w) = EnabledStoreIds(run[w].settings)
           /\ run[w].oi > Len(run[w].orders)

\* C5 amended: a persistence failure (save or submit raising) while
\* assembling an order ends the run: the exception leaves list_orders, the
\* order is not submitted, and the order loop, the store loop and the
\* settings loop stay where the failed order left them.
C5_PersistenceFailureEndsRun ==
    \A w \in Workers :
        exc[w] = Some("PersistenceError")
        => /\ pc[w] = "raised"
           /\ call[w].so = None \/ call[w].so[1].docstatus = 0
           /\ run[w].oi <= Len(run[w].orders)
           /\ CurrentOrder(w) = call[w].order
           /\ requests[w][Len(requests[w])].store_id
                  = call[w].store[1].store_id

\* a run ended by a persistence failure with an order of the same fetch and
\* a store of the same run left
C5_Witness ==
    /\ pc[1] = "raised"
    /\ exc[1] = Some("PersistenceError")
    /\ run[1].oi < Len(run[1].orders)
    /\ Len(RequestedStoreIds(1)) < Len(EnabledStoreIds(run[1].settings))

\* ----- C6
\* the settings validate_order is applied to: allow-lists and cutoff dates
ValidatorSettings ==
    [active_warehouse_ids : {{}, {1}, {2}},
     since_date : {None, Some(1), Some(2)}]

\* the orders validate_order is applied to, and None
ValidatorOrders ==
    {None} \cup
    {Some(Order(id, wh, created, None, None, None, None)) :
        id \in OrderIds, wh \in {1, 2}, created \in {23, 24, 47, 48}}

\* C6: validate_order returns true exactly when the order is present, no
\* submitted document carries its id, the allow-list is empty or contains
\* its warehouse id, and there is no cutoff date or the creation date is not
\* before it; the rejection that applies is the first of these in this
\* order.
C6_ValidateOrderRules ==
    \A settings \in ValidatorSettings, order \in ValidatorOrders :
        LET present == order # None
            fresh == order[1].order_id \notin SubmittedIds
            warehouse ==
                \/ settings.active_warehouse_ids = {}
                \/ order[1].warehouse_id \in settings.active_warehouse_ids
            date ==
                \/ settings.since_date = None
                \/ order[1].create_date
                       >= settings.since_date[1] * HoursPerDay
            store == StoreById(1)
        IN  /\ validate_order(settings, order, store)
               <=> (present /\ fresh /\ warehouse /\ date)
            /\ validate_order_exit(settings, order, store)
                   = IF ~present THEN 1
                     ELSE IF ~fresh THEN 2
                     ELSE IF ~warehouse THEN 3
                     ELSE IF ~date THEN 4
                     ELSE 0

\* the validator rejects, by the duplicate rule, an order that passes the
\* warehouse and date rules of its settings
C6_Witness ==
    /\ pc[1] = "orders"
    /\ run[1].oi = 2
    /\ run[1].orders = <<Some(A_Order), Some(A_Order)>>
    /\ validate_order_exit(CurrentSettings(1), CurrentOrder(1),
                           CurrentStore(1)) = 2

\* ----- C7
\* C7: for every order whose merchandise-line set is empty after skipping
\* lines with quantity < 1 and discount lines (also with no items at all),
\* create_erpnext_order saves and submits nothing and returns nothing: it is
\* at its start or has returned None, holds no document, raised nothing,
\* and the Sales Order table has no document for the order.
C7_NoLinesNothingPersisted ==
    \A w \in Workers :
        (/\ InCall(w)
         /\ \A items \in loop_items(call[w].order[1]) :
                \A i \in DOMAIN items : ~IsMerchandise(items[i]))
        => /\ pc[w] \in {"create", "returned"}
           /\ call[w].so = None
           /\ ret[w] = None
           /\ exc[w] = None
           /\ \A n \in DOMAIN salesOrders :
                  salesOrders[n].shipstation_order_id
                      # call[w].order[1].order_id

\* an order with items, none of them merchandise, has returned
C7_Witness ==
    /\ pc[1] = "returned"
    /\ InCall(1)
    /\ call[1].order[1].items # None
    /\ Len(call[1].order[1].items[1]) = 2
    /\ \A items \in loop_items(call[1].order[1]) :
           \A i \in DOMAIN items : ~IsMerchandise(items[i])
    /\ salesOrders = <<>>

\* ----- C8
\* C8: the discount total is the sum of |unit_price x quantity| over exactly
\* the items with quantity >= 1 and key "discount"; the document's rows are
\* exactly the merchandise items; once reconciled, a total > 0 is on the
\* document as discount_amount with apply_discount_on "Grand Total".
C8_DiscountFromDiscountLinesOnly ==
    \A w \in Workers :
        (InCall(w) /\ call[w].so # None)
        => /\ \E items \in loop_items(call[w].order[1]) :
                  /\ call[w].discount_amount = DiscountTotal(items)
                  /\ call[w].so[1].items = MerchandiseRows(items)
           /\ (Reconciled(w) /\ call[w].discount_amount > 0)
              => /\ call[w].so[1].apply_discount_on = Some("Grand Total")
                 /\ call[w].so[1].discount_amount = call[w].discount_amount
                 /\ salesOrders[call[w].so[1].name].discount_amount
                        = call[w].discount_amount

\* the spec's example: a discount line of -5 x 2 and a merchandise line of
\* 10 x 1 give a discount of 10 on a document with the one merchandise row
C8_Witness ==
    /\ Reconciled(1)
    /\ call[1].order[1].items =
           Some(<<Item(2, Some(-5), "discount"), Item(1, Some(10), "sku")>>)
    /\ call[1].so[1].discount_amount = 10
    /\ call[1].so[1].apply_discount_on = Some("Grand Total")
    /\ call[1].so[1].items = <<[qty |-> 1, rate |-> 10]>>

\* ----- C9
\* C9 as claimed: a reconciled document carries a difference charge exactly
\* when amount_paid is present and the rounded grand total differs from it.
C9_DifferenceWheneverPaidPresent ==
    \A w \in Workers :
        Reconciled(w)
        => LET order == call[w].order[1]
           IN  (DifferenceCharges(w) # <<>>)
               <=> /\ order.amount_paid # None
                   /\ quantize(FirstGrandTotal(w)) # order.amount_paid[1]

\* C9 amended: a reconciled document carries a difference charge exactly
\* when amount_paid is present and not zero and the grand total of the first
\* save, rounded to two decimals, differs from it; there is then one such
\* charge and its amount is amount_paid minus that rounded grand total.
C9_DifferenceWhenPaidNonzeroDiffers ==
    \A w \in Workers :
        Reconciled(w)
        => LET order == call[w].order[1]
               differs ==
                   /\ order.amount_paid # None
                   /\ order.amount_paid[1] # 0
                   /\ quantize(FirstGrandTotal(w)) # order.amount_paid[1]
           IN  /\ (DifferenceCharges(w) # <<>>) <=> differs
               /\ differs
                  => /\ Len(DifferenceCharges(w)) = 1
                     /\ DifferenceCharges(w)[1].tax_amount
                            = order.amount_paid[1]
                              - quantize(FirstGrandTotal(w))

\* a difference charge is on a submitted document whose unrounded grand
\* total is not a multiple of 0.01
C9_Witness ==
    /\ pc[1] = "returned"
    /\ call[1].so # None
    /\ call[1].so[1].docstatus = 1
    /\ DifferenceCharges(1) # <<>>
    /\ FirstGrandTotal(1) # quantize(FirstGrandTotal(1))

\* the spec's end-to-end example, amounts in units: merchandise 30, tax 3,
\* shipping 5, paid 38: submitted without a difference charge
C9_WitnessExactMatch ==
    /\ pc[1] = "returned"
    /\ call[1].so # None
    /\ call[1].so[1].docstatus = 1
    /\ FirstGrandTotal(1) = 38
    /\ call[1].order[1].tax_amount = Some(3)
    /\ call[1].order[1].shipping_amount = Some(5)
    /\ call[1].order[1].amount_paid = Some(38)
    /\ DifferenceCharges(1) = <<>>

\* ----- C10
\* C10: every difference charge is booked to the store's shipping-income
\* account if the rounded grand total minus amount_paid equals the order's
\* shipping amount, and to the store's difference account otherwise.
C10_DifferenceAccountRouting ==
    \A w \in Workers :
        Reconciled(w)
        => \A i \in DOMAIN DifferenceCharges(w) :
               LET order == call[w].order[1]
                   store == call[w].store[1]
                   discrepancy ==
                       quantize(FirstGrandTotal(w)) - order.amount_paid[1]
               IN  DifferenceCharges(w)[i].account_head
                       = IF /\ order.shipping_amount # None
                            /\ discrepancy = order.shipping_amount[1]
                         THEN store.shipping_income_account
                         ELSE store.difference_account

\* grand total 18, paid 13, shipping 5: the correction of -5 is on the
\* shipping-income account
C10_Witness ==
    /\ Reconciled(1)
    /\ FirstGrandTotal(1) = 18
    /\ call[1].order[1].amount_paid = Some(13)
    /\ call[1].order[1].shipping_amount = Some(5)
    /\ DifferenceCharges(1) # <<>>
    /\ DifferenceCharges(1)[1].tax_amount = -5
    /\ DifferenceCharges(1)[1].account_head = "shipping_income"

\* ----- C11
\* the charges booked to the store's tax account on the worker's document
TaxAccountCharges(w) ==
    SelectSeq(call[w].so[1].taxes,
              LAMBDA c : c.account_head = call[w].store[1].tax_account)

\* C11: an assembled order of a store with withholding and a nonzero remote
\* tax amount carries exactly two charges on the store's tax account,
\* +tax_amount and -tax_amount, summing to zero; without withholding it
\* carries exactly one, +tax_amount; with a zero or absent tax amount none.
C11_WithholdingTaxCharges ==
    Reconciled(1) =>
        LET order == call[1].order[1]
            store == call[1].store[1]
            t == TaxAccountCharges(1)
        IN  IF ~Truthy(order.tax_amount) THEN t = <<>>
            ELSE IF store.withholding
                 THEN /\ Len(t) = 2
                      /\ t[1].tax_amount = order.tax_amount[1]
                      /\ t[2].tax_amount = -(order.tax_amount[1])
                      /\ t[1].tax_amount + t[2].tax_amount = 0
            ELSE /\ Len(t) = 1
                 /\ t[1].tax_amount = order.tax_amount[1]

\* a submitted order of a withholding store with tax 3: charges +3 and -3
C11_Witness ==
    /\ Reconciled(1)
    /\ call[1].so[1].docstatus = 1
    /\ call[1].store[1].withholding
    /\ call[1].order[1].tax_amount = Some(3)
    /\ Len(TaxAccountCharges(1)) = 2

\* ----- C12
\* the charges booked to the store's commission account
CommissionCharges(w) ==
    SelectSeq(call[w].so[1].taxes,
              LAMBDA c : c.account_head = call[w].store[1].commission_account)

\* The value of a formula token when the formula is evaluated for the
\* worker's order: a number, the first save's grand total, the discount total
\* of the order; None for anything else.
TokenValue(w, tok) ==
    IF tok.t = "num" THEN Some(tok.n)
    ELSE IF tok.t = "var" /\ tok.v = "grand_total"
         THEN Some(FirstGrandTotal(w))
    ELSE IF tok.t = "var" /\ tok.v = "discount_amount"
         THEN Some(call[w].discount_amount)
    ELSE None

\* The value the partner's formula has for the worker's order, None when it
\* has none: the formula is a number or placeholder, or two of them around
\* an operator.
FormulaValue(w) ==
    LET f == commission_formula[1]
    IN  IF Len(f) = 1 THEN TokenValue(w, f[1])
        ELSE IF /\ Len(f) = 3
                /\ f[2].t = "op"
                /\ TokenValue(w, f[1]) # None
                /\ TokenValue(w, f[3]) # None
             THEN LET a == TokenValue(w, f[1])[1]
                      b == TokenValue(w, f[3])[1]
                  IN  IF f[2].v = "*" THEN Some(a * b)
                      ELSE IF f[2].v = "+" THEN Some(a + b)
                      ELSE IF f[2].v = "-" THEN Some(a - b)
                      ELSE None
        ELSE None

\* the order has a bound partner, the store enables commission and the
\* partner has a formula
CommissionConfigured(w) ==
    /\ call[w].store[1].sales_partner # None
    /\ call[w].store[1].apply_commission
    /\ commission_formula # None

\* C12: a commission charge is appended exactly when the order has a bound
\* sales partner, the store enables commission, the partner has a formula
\* and the formula evaluates to a nonzero, non-null v; the charge is then
\* -v on the store's commission account, flagged included-in-paid-amount;
\* otherwise there is no commission charge.
C12_CommissionExactlyWhenConfigured ==
    Reconciled(1) =>
        LET store == call[1].store[1]
            taxes == call[1].so[1].taxes
            flagged == SelectSeq(taxes,
                           LAMBDA c : c.included_in_paid_amount = 1)
        IN  IF /\ CommissionConfigured(1)
               /\ FormulaValue(1) # None
               /\ FormulaValue(1)[1] # 0
            THEN /\ CommissionCharges(1) =
                        <<Charge(store.commission_account, "Commission",
                                 -(FormulaValue(1)[1]), 1)>>
                 /\ flagged = CommissionCharges(1)
                 /\ taxes[Len(taxes)] = CommissionCharges(1)[1]
            ELSE CommissionCharges(1) = <<>> /\ flagged = <<>>

\* a submitted order with a commission charge of -2 x 10
C12_Witness ==
    /\ Reconciled(1)
    /\ call[1].so[1].docstatus = 1
    /\ CommissionConfigured(1)
    /\ Len(CommissionCharges(1)) = 1
    /\ CommissionCharges(1)[1].tax_amount = -20

\* ----- C13
\* the partner's formula applies to the worker's order and fails to evaluate
FormulaFails(w) ==
    CommissionConfigured(w) /\ FormulaValue(w) = None

\* C13: when evaluating the commission formula fails (malformed formula or
\* placeholder naming no attribute), no exception of the evaluation leaves
\* get_formula_based_commission: the step after the first save is the second
\* save (or its own persistence failure), the saved order has no commission
\* charge, and an order that comes out of the submit step is Submitted.
C13_FormulaFailureDoesNotAbort ==
    /\ [](Reconciled(1) /\ FormulaFails(1) => CommissionCharges(1) = <<>>)
    /\ [][pc[1] = "saved" /\ FormulaFails(1) =>
              \/ /\ pc'[1] = "saved2"
                 /\ call'[1].so # None
                 /\ salesOrders'[call'[1].so[1].name] = call'[1].so[1]
              \/ exc'[1] = Some("PersistenceError")]_vars
    /\ [](/\ pc[1] \in {"postsubmit", "returned"}
          /\ call[1].so # None
          /\ FormulaFails(1)
          => call[1].so[1].docstatus = 1)

\* a submitted order of the commission store whose partner has the malformed
\* formula "{{grand_total}} *"
C13_Witness ==
    /\ Reconciled(1)
    /\ FormulaFails(1)
    /\ commission_formula = Some(<<Var("grand_total"), Op("*")>>)
    /\ call[1].so[1].docstatus = 1
    /\ salesOrders[call[1].so[1].name].docstatus = 1
    /\ pc[1] = "returned"

\* ----- C14
\* the documents of the Sales Order table that are saved and not submitted
SavedUnsubmitted == {n \in DOMAIN salesOrders : salesOrders[n].docstatus = 0}

\* C14: once line mapping has produced a merchandise line and no persistence
\* call fails, create_erpnext_order ends with the order Submitted and returns
\* its identifier whatever hooks are registered; it returns nothing only for
\* an order abandoned without merchandise lines; it never leaves an order
\* saved and not submitted.
C14_AlwaysSubmittedAndReturned ==
    /\ pc[1] = "raised" => exc[1] = Some("PersistenceError")
    /\ pc[1] = "returned" =>
           /\ SavedUnsubmitted = {}
           /\ ret[1] = None <=> salesOrders = <<>>
           /\ ret[1] # None =>
                  /\ ret[1][1] \in DOMAIN salesOrders
                  /\ salesOrders[ret[1][1]].docstatus = 1

\* ----- C15
\* C15: when an order is submitted and a post-submission hook is registered
\* the hook is called exactly once, after the submit, with or without a
\* pre-submission hook; when none is registered create_erpnext_order ends
\* without error and returns the identifier, with or without a
\* pre-submission hook.
C15_AfterHookIndependentOfBeforeHook ==
    LET submitted == {n \in DOMAIN salesOrders : salesOrders[n].docstatus = 1}
    IN  /\ call[1].after_submit_calls > 0 =>
               submitted # {} /\ pc[1] = "returned"
        /\ "update_shipstation_order_after_submit" \in hooks =>
               (pc[1] = "returned" /\ submitted # {} =>
                    call[1].after_submit_calls = 1)
        /\ "update_shipstation_order_after_submit" \notin hooks =>
               /\ exc[1] # Some("IndexError")
               /\ pc[1] = "returned" /\ submitted # {} =>
                      /\ ret[1] # None
                      /\ ret[1][1] \in submitted

\* ----- C16
\* the charges the reconciliation after the first save appends
IsReconciliationCharge(c) ==
    \/ c.description = "Shipstation Difference Amount"
    \/ c.description = "Commission"
    \/ c.description = "Shipstation Tax Amount" /\ c.tax_amount < 0

\* the tax and shipping charges of the remote order, by their amounts
RemoteCharges(w) ==
    LET order == call[w].order[1]
        store == call[w].store[1]
    IN  (IF order.tax_amount \in {None, Some(0)} THEN <<>>
         ELSE <<Charge(store.tax_account, "Shipstation Tax Amount",
                       order.tax_amount[1], 0)>>)
        \o (IF order.shipping_amount \in {None, Some(0)} THEN <<>>
            ELSE <<Charge(store.shipping_income_account,
                          "Shipstation Shipping Amount",
                          order.shipping_amount[1], 0)>>)

\* C16 as stated: no charge line of any kind is on the order before the first
\* save (the first-saved document has none), every charge line is appended
\* before the second save, and submit never happens before the second save.
C16_NoChargeBeforeFirstSave ==
    /\ [](pc[1] = "saved" => call[1].so[1].taxes = <<>>)
    /\ [][pc[1] \in {"saved2", "presubmit", "postsubmit"}
              /\ call'[1].so # None
              => call'[1].so[1].taxes = call[1].so[1].taxes]_vars
    /\ [][SavedUnsubmitted' # SavedUnsubmitted /\ salesOrders # <<>>
              => pc[1] = "presubmit"]_vars

\* C16 amended: the tax and shipping charges are appended before the first
\* save, which persists them; the reconciliation between the two saves
\* appends only difference, withholding-reversal and commission charges
\* behind them; no charge changes after the second save; the submit comes
\* only after the second save (and the pre-submission hook's step).
C16_LifecycleOrder ==
    /\ [](pc[1] = "saved" =>
              /\ call[1].so[1].taxes = RemoteCharges(1)
              /\ call[1].so[1].docstatus = 0
              /\ salesOrders[call[1].so[1].name] = call[1].so[1])
    /\ [][pc[1] = "saved" /\ pc'[1] = "saved2" =>
              LET old == call[1].so[1].taxes
                  new == call'[1].so[1].taxes
              IN  /\ IsPrefix(old, new)
                  /\ \A i \in (Len(old) + 1)..Len(new) :
                         IsReconciliationCharge(new[i])
                  /\ salesOrders'[call'[1].so[1].name].taxes = new]_vars
    /\ [][pc[1] \in {"saved2", "presubmit", "postsubmit"}
              /\ call'[1].so # None
              => call'[1].so[1].taxes = call[1].so[1].taxes]_vars
    /\ [][SavedUnsubmitted' # SavedUnsubmitted /\ salesOrders # <<>>
              => pc[1] = "presubmit"]_vars
    /\ [](pc[1] \in {"create", "saved", "saved2", "presubmit"}
              => \A n \in DOMAIN salesOrders : salesOrders[n].docstatus = 0)

\* a submitted order whose tax and shipping charges of the first save are
\* followed by a difference charge of the reconciliation
C16_Witness ==
    /\ pc[1] = "returned"
    /\ call[1].so # None
    /\ call[1].so[1].docstatus = 1
    /\ Len(RemoteCharges(1)) = 2
    /\ Len(call[1].so[1].taxes) >= 3
    /\ SubSeq(call[1].so[1].taxes, 1, 2) = RemoteCharges(1)
    /\ call[1].so[1].taxes[3].description = "Shipstation Difference Amount"

\* ----- C17
\* C17 as stated: in a run started without a checkpoint the fetch window of
\* every store starts exactly 24 hours before its end, the moment the store
\* is iterated.
C17_WindowPerStore ==
    \A i \in DOMAIN requests[1] :
        requests[1][i].modify_date_start =
            requests[1][i].modify_date_end - WindowHours

\* C17 amended: the window start is computed once in the run, 24 hours
\* before the moment the first enabled tenant is entered, and is the start
\* of the window of every store of every tenant of the run; the window end
\* is the moment the store is iterated, so a window is 24 hours plus the
\* time the run has consumed since.
C17_WindowStartFixedPerRun ==
    /\ [][pc[1] = "settings" /\ pc'[1] = "stores" =>
              run'[1].last_order_datetime =
                  IF run[1].last_order_datetime = None
                  THEN Some(run[1].clock - WindowHours)
                  ELSE run[1].last_order_datetime]_vars
    /\ [][run[1].last_order_datetime # None =>
              run'[1].last_order_datetime = run[1].last_order_datetime]_vars
    /\ [][Len(requests'[1]) = Len(requests[1]) + 1 =>
              LET r == requests'[1][Len(requests'[1])]
              IN  /\ r.modify_date_end = run[1].clock
                  /\ r.modify_date_start = run[1].last_order_datetime[1]]_vars
    /\ [](\A i, j \in DOMAIN requests[1] :
              /\ requests[1][i].modify_date_start =
                     requests[1][j].modify_date_start
              /\ requests[1][i].modify_date_end
                     - requests[1][i].modify_date_start >= WindowHours
              /\ i < j => requests[1][i].modify_date_end
                              <= requests[1][j].modify_date_end)

\* a run that requested store 1 and, two hours later, store 5 of another
\* tenant with the same window start: a window of 26 hours
C17_Witness ==
    /\ Len(requests[1]) >= 2
    /\ requests[1][1].store_id = 1
    /\ requests[1][Len(requests[1])].store_id = 5
    /\ requests[1][Len(requests[1])].modify_date_start =
           requests[1][1].modify_date_start
    /\ requests[1][Len(requests[1])].modify_date_end
           - requests[1][Len(requests[1])].modify_date_start
           = WindowHours + 2

\* ----- C18
\* C18 as stated: tax and shipping charges are positive, commission and
\* difference charges negative, and the only negative tax-account charge is
\* the withholding reversal, for all remote orders.
C18_ChargeSignsByKind ==
    Reconciled(1) =>
        LET taxes == call[1].so[1].taxes
            store == call[1].store[1]
            negativeTax == {i \in DOMAIN taxes :
                               /\ taxes[i].account_head = store.tax_account
                               /\ taxes[i].tax_amount < 0}
        IN  /\ \A i \in DOMAIN taxes :
                   /\ taxes[i].description = "Shipstation Shipping Amount"
                          => taxes[i].tax_amount > 0
                   /\ taxes[i].description = "Shipstation Difference Amount"
                          => taxes[i].tax_amount < 0
                   /\ taxes[i].description = "Commission"
                          => taxes[i].tax_amount < 0
                   /\ taxes[i].description = "Shipstation Tax Amount"
                          => taxes[i].tax_amount > 0 \/ i \in negativeTax
            /\ Cardinality(negativeTax) <= 1
            /\ negativeTax # {} => store.withholding

\* C18 amended: tax and shipping charges carry the remote amounts (positive
\* for positive amounts); the only negative tax-account charge is the
\* withholding reversal; a commission charge is -v, negative for a positive
\* formula value v; a difference charge is amount_paid minus the rounded
\* first-save grand total: negative when the grand total exceeds
\* amount_paid, positive when amount_paid exceeds the grand total.
C18_ChargeSignsWithSignedDifference ==
    Reconciled(1) =>
        LET taxes == call[1].so[1].taxes
            order == call[1].order[1]
            store == call[1].store[1]
            total == quantize(FirstGrandTotal(1))
            negativeTax == {i \in DOMAIN taxes :
                               /\ taxes[i].account_head = store.tax_account
                               /\ taxes[i].tax_amount < 0}
        IN  /\ \A i \in DOMAIN taxes :
                   /\ taxes[i].description = "Shipstation Shipping Amount"
                          => /\ taxes[i].tax_amount = order.shipping_amount[1]
                             /\ taxes[i].tax_amount > 0
                   /\ taxes[i].description = "Shipstation Difference Amount"
                          => /\ taxes[i].tax_amount = order.amount_paid[1] - total
                             /\ taxes[i].tax_amount < 0
                                    <=> total > order.amount_paid[1]
                             /\ taxes[i].tax_amount > 0
                                    <=> order.amount_paid[1] > total
                   /\ taxes[i].description = "Commission"
                          => /\ taxes[i].tax_amount = -(FormulaValue(1)[1])
                             /\ taxes[i].tax_amount < 0
                                    <=> FormulaValue(1)[1] > 0
                   /\ taxes[i].description = "Shipstation Tax Amount"
                          => \/ taxes[i].tax_amount = order.tax_amount[1]
                                    /\ taxes[i].tax_amount > 0
                             \/ i \in negativeTax
            /\ Cardinality(negativeTax) <= 1
            /\ \A i \in negativeTax :
                   /\ store.withholding
                   /\ taxes[i].tax_amount = -(order.tax_amount[1])

\* a submitted order of one merchandise line of 10 with amount_paid 38: a
\* difference charge of +28
C18_Witness ==
    /\ Reconciled(1)
    /\ call[1].so[1].docstatus = 1
    /\ call[1].order[1].amount_paid = Some(38)
    /\ FirstGrandTotal(1) = 10
    /\ Len(DifferenceCharges(1)) = 1
    /\ DifferenceCharges(1)[1].tax_amount = 28

\* ----- C19
\* C19: an order is handed to create_erpnext_order only when validate_order
\* returns true for it; when validate_order returns true and no
\* process_shipstation_order hook is registered it is always handed over
\* (only the registered hook can veto); an order validate_order rejects is
\* skipped and never assembled.
C19_HookCanOnlyVeto ==
    [][pc[1] = "orders" /\ run[1].oi <= Len(run[1].orders) =>
          LET accepted == validate_order(CurrentSettings(1), CurrentOrder(1),
                                         CurrentStore(1))
          IN  /\ pc'[1] = "create" =>
                     /\ accepted
                     /\ call'[1].order = CurrentOrder(1)
                     /\ call'[1].store = Some(CurrentStore(1))
              /\ accepted /\ "process_shipstation_order" \notin hooks
                     => pc'[1] = "create"
              /\ ~accepted =>
                     /\ pc'[1] = "orders"
                     /\ run'[1].oi = run[1].oi + 1
                     /\ salesOrders' = salesOrders]_vars

\* with the hook registered, the second order of a fetch is being assembled
\* after the hook vetoed or let through the first
C19_Witness ==
    /\ "process_shipstation_order" \in hooks
    /\ pc[1] = "create"
    /\ run[1].oi = 2
    /\ call[1].order = Some(A_Order)

\* ----- C20
\* the adjustments made between the two saves that change the grand total:
\* difference charge and withholding reversal, less the discount
AdjustmentsAfterFirstSave(w) ==
    LET taxes == call[w].so[1].taxes
    IN  SumSeq([i \in DOMAIN taxes |->
                   IF /\ IsReconciliationCharge(taxes[i])
                      /\ taxes[i].description # "Commission"
                   THEN taxes[i].tax_amount ELSE 0])
        - call[w].discount_amount

\* C20: the grand total substituted into the commission formula is the one
\* of the first save, merchandise plus tax and shipping charges, without the
\* difference charge, the withholding reversal and the discount added
\* between the saves: for the formula "{{grand_total}} * 2" the commission
\* charge is -2 x that total, and differs from -2 x the adjusted total
\* whenever the adjustments are not zero.
C20_CommissionFromFirstSaveTotal ==
    /\ Reconciled(1)
    /\ CommissionCharges(1) # <<>>
    /\ commission_formula = Some(<<Var("grand_total"), Op("*"), Num(2)>>)
    => LET amount == CommissionCharges(1)[1].tax_amount
           adjusted == FirstGrandTotal(1) + AdjustmentsAfterFirstSave(1)
       IN  /\ amount = -(2 * FirstGrandTotal(1))
           /\ call[1].so[1].grand_total = adjusted + amount
           /\ AdjustmentsAfterFirstSave(1) # 0 => amount # -(2 * adjusted)

\* a submitted order with merchandise 10, tax 3 (withheld), shipping 5 and
\* amount_paid 10: first grand total 18, adjustments -8 - 3, commission -36
C20_Witness ==
    /\ Reconciled(1)
    /\ call[1].so[1].docstatus = 1
    /\ commission_formula = Some(<<Var("grand_total"), Op("*"), Num(2)>>)
    /\ FirstGrandTotal(1) = 18
    /\ AdjustmentsAfterFirstSave(1) = -11
    /\ Len(CommissionCharges(1)) = 1
    /\ CommissionCharges(1)[1].tax_amount = -36
====
